---- MODULE Spec2Model ----
(***************************************************************************)
(* A model of csvquerytool (src/csvquerytool/__init__.py): the type        *)
(* guesser, the column namer, the row formatter, the table namer, the      *)
(* table loader (create_table) and the batch query session (run_query).    *)
(*                                                                         *)
(* A Python string is a sequence of one-character strings, so that strip,  *)
(* replace, int(), float(), "%s%d" and "%f" are computed on characters.    *)
(* The characters used are the digits and  . , $ % ? - + space x / c s v   *)
(* and BadByte (a byte that is not valid UTF-8).                            *)
(*                                                                         *)
(* The source runs under a Python 2 or a Python 3 interpreter (it uses      *)
(* print(...) and bytes(s, enc) beside s.decode(enc) and unicode(cell)):   *)
(* the variable python holds the interpreter's major version, chosen in    *)
(* Init and never changed.                                                 *)
(***************************************************************************)
EXTENDS Integers, Sequences, FiniteSets, TLC

VARIABLES
    python,             \* the interpreter's major version: 2 or 3
    example_data,       \* guess_type: its argument
    guess_result,       \* guess_type: "pending", a cast type, or "ValueError"
    header_in,          \* rename_duplicates: the header as it was handed in
    header,             \* the header list (renamed in place)
    col_num,            \* rename_duplicates: columns finalized so far
    row,                \* format_row: its argument, a typed result row
    row_formatted,      \* format_row: [state, cells], state "pending", "done" or "NameError"
    csv_files,          \* the ordered list of input paths
    based_on_filename,  \* choose_table_names: the naming policy
    table_names,        \* the table names assigned so far
    pad_rows,           \* create_table: pad short rows (TRUE) or be strict
    file,               \* create_table: the rows of the csv file, header first
    table_name,         \* create_table: the table being loaded
    pc,                 \* create_table: the stage of the load
    reader_pos,         \* create_table: rows the csv reader has yielded
    detect_type_rows,   \* create_table: the retained sample rows
    guessed_type,       \* create_table: the cast type of each column
    num_rows,           \* create_table: the index enumerate gives the next row
    error,              \* create_table: "none", or the error that ended the load
    engine,             \* the requests submitted to the engine, in order
    qpc,                \* run_query: the stage of the session
    file_num,           \* run_query: input files handed to create_table so far
    query,              \* run_query: the table the caller's query selects from
    cursor,             \* run_query: result rows not yet written
    output              \* run_query: the rows written to output_fh

vars == <<python, example_data, guess_result, header_in, header, col_num,
          row, row_formatted, csv_files, based_on_filename, table_names,
          pad_rows, file, table_name, pc, reader_pos, detect_type_rows,
          guessed_type, num_rows, error, engine,
          qpc, file_num, query, cursor, output>>

queryVars == <<qpc, file_num, query, cursor, output>>
guessVars == <<example_data, guess_result>>
renameVars == <<header_in, header, col_num>>
formatVars == <<row, row_formatted>>
namesVars == <<csv_files, based_on_filename, table_names>>
loadVars == <<pad_rows, file, table_name, pc, reader_pos, detect_type_rows,
              guessed_type, num_rows, error, engine>>

----------------------------------------------------------------------------
(* Bounds of the model *)

\* the longest sample handed to guess_type on its own
MaxSample == 3
\* the most columns of a header handed to rename_duplicates on its own
MaxHeader == 3
\* the most cells of a result row handed to format_row on its own
MaxCells == 2
\* the most input files of one session
MaxFiles == 3
\* the most columns of a loaded file's header
MaxCols == 2
\* the most data rows of a loaded file
MaxRows == 3
\* GUESS_TYPE_FROM_N_ROWS, the sampling window: 10000 in the source
\* (line 13), scaled down so that rows lie on both sides of it
GUESS_TYPE_FROM_N_ROWS == 1

----------------------------------------------------------------------------
(* Strings *)

Digit == {"0", "1", "2", "3", "4", "5", "6", "7", "8", "9"}

\* a byte that is no valid UTF-8 (0xFF)
BadByte == "<FF>"

DigitVal(c) ==
    CASE c = "0" -> 0 [] c = "1" -> 1 [] c = "2" -> 2 [] c = "3" -> 3
      [] c = "4" -> 4 [] c = "5" -> 5 [] c = "6" -> 6 [] c = "7" -> 7
      [] c = "8" -> 8 [] c = "9" -> 9

DigitChar(d) ==
    CASE d = 0 -> "0" [] d = 1 -> "1" [] d = 2 -> "2" [] d = 3 -> "3"
      [] d = 4 -> "4" [] d = 5 -> "5" [] d = 6 -> "6" [] d = 7 -> "7"
      [] d = 8 -> "8" [] d = 9 -> "9"

\* all sequences over S of length 0..n
SeqsUpTo(S, n) == UNION {[1..k -> S] : k \in 0..n}

RECURSIVE LStrip(_, _)
LStrip(s, cs) ==
    IF s # <<>> /\ Head(s) \in cs THEN LStrip(Tail(s), cs) ELSE s

RECURSIVE RStrip(_, _)
RStrip(s, cs) ==
    IF s # <<>> /\ s[Len(s)] \in cs
    THEN RStrip(SubSeq(s, 1, Len(s) - 1), cs)
    ELSE s

\* s.strip(chars)
StripChars(s, cs) == RStrip(LStrip(s, cs), cs)

\* s.strip(): surrounding whitespace
strip(s) == StripChars(s, {" "})

\* s.replace(c, '')
RECURSIVE Remove(_, _)
Remove(s, c) ==
    IF s = <<>> THEN <<>>
    ELSE IF Head(s) = c THEN Remove(Tail(s), c)
    ELSE <<Head(s)>> \o Remove(Tail(s), c)

\* the value of a non-empty string of digits
RECURSIVE DigitsVal(_)
DigitsVal(s) ==
    IF s = <<>> THEN 0
    ELSE 10 * DigitsVal(SubSeq(s, 1, Len(s) - 1)) + DigitVal(s[Len(s)])

\* "%d" % n, for n >= 0
RECURSIVE NatDigits(_)
NatDigits(n) ==
    IF n < 10 THEN <<DigitChar(n)>>
    ELSE NatDigits(n \div 10) \o <<DigitChar(n % 10)>>

\* "%d" % n
IntDigits(n) == IF n < 0 THEN <<"-">> \o NatDigits(-n) ELSE NatDigits(n)

IsDigits(s) == s # <<>> /\ \A i \in 1..Len(s) : s[i] \in Digit

Signed(s) == s # <<>> /\ Head(s) \in {"+", "-"}

Unsigned(s) == IF Signed(s) THEN Tail(s) ELSE s

Negative(s) == s # <<>> /\ Head(s) = "-"

\* where the first "." of s is, or 0
DotAt(s) ==
    IF \E i \in 1..Len(s) : s[i] = "."
    THEN CHOOSE i \in 1..Len(s) : s[i] = "." /\ \A j \in 1..(i - 1) : s[j] # "."
    ELSE 0

----------------------------------------------------------------------------
(* Typed values: None, int, float (in millionths), unicode text, bytes *)

None == [t |-> "None", n |-> 0, s |-> <<>>]
IntVal(n) == [t |-> "int", n |-> n, s |-> <<>>]
\* a float, held as its value in millionths (the six decimals "%f" renders)
FloatVal(micro) == [t |-> "float", n |-> micro, s |-> <<>>]
UnicodeVal(s) == [t |-> "unicode", n |-> 0, s |-> s]
BytesVal(s) == [t |-> "bytes", n |-> 0, s |-> s]

Returned(v) == [raised |-> "none", val |-> v]
Raised(e) == [raised |-> e, val |-> None]

----------------------------------------------------------------------------
(* The cast functions *)

FormatChars == {"%", "$", "?"}

stripped_string(s) == Remove(StripChars(s, FormatChars), ",")

\* int(s): surrounding whitespace, an optional sign, decimal digits
int(s) ==
    LET t == strip(s) IN
    IF IsDigits(Unsigned(t))
    THEN Returned(IntVal(IF Negative(t) THEN -DigitsVal(Unsigned(t))
                                       ELSE DigitsVal(Unsigned(t))))
    ELSE Raised("ValueError")

\* the first six decimals of a string of digits, as millionths
Millionths(frac) ==
    LET padded == frac \o <<"0", "0", "0", "0", "0", "0">>
    IN  DigitsVal(SubSeq(padded, 1, 6))

\* float(s): surrounding whitespace, an optional sign, digits with at most
\* one "." and at least one digit
float(s) ==
    LET t == strip(s)
        u == Unsigned(t)
        d == DotAt(u)
        whole == IF d = 0 THEN u ELSE SubSeq(u, 1, d - 1)
        frac == IF d = 0 THEN <<>> ELSE SubSeq(u, d + 1, Len(u))
        wellFormed == /\ \A i \in 1..Len(whole) : whole[i] \in Digit
                      /\ \A i \in 1..Len(frac) : frac[i] \in Digit
                      /\ Len(whole) + Len(frac) > 0
        micro == DigitsVal(whole) * 1000000 + Millionths(frac)
    IN  IF wellFormed
        THEN Returned(FloatVal(IF Negative(t) THEN -micro ELSE micro))
        ELSE Raised("ValueError")

ValidUTF8(s) == \A i \in 1..Len(s) : s[i] # BadByte

CAST_TYPES == <<"INTEGER", "FLOAT", "TEXT", "BLOB">>

\* CAST_FUNCS: the cast function of each type, under the interpreter py
CastText(py, s) ==
    IF py = 2
    THEN IF ValidUTF8(s) THEN Returned(UnicodeVal(s)) ELSE Raised("ValueError")
    ELSE Raised("AttributeError")

CastBlob(py, s) ==
    IF py = 2 THEN Raised("TypeError") ELSE Returned(BytesVal(s))

Cast(py, type, s) ==
    CASE type = "INTEGER" ->
            IF stripped_string(s) # <<>> THEN int(stripped_string(s))
                                         ELSE Returned(None)
      [] type = "FLOAT" ->
            IF stripped_string(s) # <<>> THEN float(stripped_string(s))
                                         ELSE Returned(None)
      [] type = "TEXT" -> CastText(py, s)
      [] type = "BLOB" -> CastBlob(py, s)

\* list(map(cast_func, example_data)) raises nothing
CastsAll(py, type, data) ==
    \A i \in 1..Len(data) : Cast(py, type, data[i]).raised = "none"

\* the first cast type, from position k on, under which every value casts
RECURSIVE GuessFrom(_, _, _)
GuessFrom(py, data, k) ==
    IF k > Len(CAST_TYPES) THEN "ValueError"
    ELSE IF CastsAll(py, CAST_TYPES[k], data) THEN CAST_TYPES[k]
    ELSE GuessFrom(py, data, k + 1)

\* guess_type with the last value of the sample left out of the probe
guess_type_SkipLast(py, data) ==
    GuessFrom(py, SubSeq(data, 1, Len(data) - 1), 1)

guess_type(py, data) == GuessFrom(py, data, 1)

----------------------------------------------------------------------------------------------------------------------------------------
(* rename_duplicates *)

InList(x, list) == \E i \in 1..Len(list) : list[i] = x

\* the inner loop with the suffixed name not checked again
RenameProbe_Once(orig, prior, col_name, n) ==
    IF ~InList(col_name, prior) THEN col_name ELSE orig \o IntDigits(n)

\* the inner loop of rename_duplicates, entered with col_name and n: the
\* name is kept when no earlier column has it, else the next suffix is tried
RECURSIVE RenameProbe(_, _, _, _)
RenameProbe(orig, prior, col_name, n) ==
    IF ~InList(col_name, prior) THEN col_name
    ELSE RenameProbe(orig, prior, orig \o IntDigits(n), n + 1)

\* one pass of the outer loop: header[col] is given its final name
RenameAt(hdr, col) ==
    [hdr EXCEPT ![col] = RenameProbe(hdr[col], SubSeq(hdr, 1, col - 1), hdr[col], 2)]

RECURSIVE RenameFrom(_, _)
RenameFrom(hdr, col) ==
    IF col > Len(hdr) THEN hdr ELSE RenameFrom(RenameAt(hdr, col), col + 1)

rename_duplicates(hdr) == RenameFrom(hdr, 1)

----------------------------------------------------------------------------
(* format_row and FORMAT_FUNCS *)

StrVal(s) == [t |-> "str", n |-> 0, s |-> s]

Abs(n) == IF n < 0 THEN -n ELSE n

\* n as exactly six digits, n < 10^6
SixDigits(n) ==
    LET d == NatDigits(n)
    IN  SubSeq(<<"0", "0", "0", "0", "0", "0">>, 1, 6 - Len(d)) \o d

\* "%f" % x: the sign, the whole part, a point and six decimals
PercentF(micro) ==
    (IF micro < 0 THEN <<"-">> ELSE <<>>)
        \o NatDigits(Abs(micro) \div 1000000)
        \o <<".">>
        \o SixDigits(Abs(micro) % 1000000)

\* FORMAT_FUNCS[int] and FORMAT_FUNCS[float]; format_row does not use them
FORMAT_FUNCS_int(n) == IntDigits(n)
FORMAT_FUNCS_float(micro) == RStrip(RStrip(PercentF(micro), {"0"}), {"."})

\* the text format_row appends for one cell; unicode(cell) raises a
\* NameError under Python 3, which has no unicode()
FormatCell(py, cell) ==
    IF cell.t = "int" THEN [raised |-> "none", s |-> IntDigits(cell.n)]
    ELSE IF cell.t = "float" THEN [raised |-> "none", s |-> PercentF(cell.n)]
    ELSE IF py = 3 THEN [raised |-> "NameError", s |-> <<>>]
    ELSE IF cell.t = "None" THEN [raised |-> "none", s |-> <<"N", "o", "n", "e">>]
    ELSE [raised |-> "none", s |-> cell.s]

\* cell.encode(encoding): a str under Python 2, bytes under Python 3
Encode(py, s) == IF py = 2 THEN StrVal(s) ELSE BytesVal(s)

\* format_row: [raised, cells]
format_row(py, r) ==
    IF \E i \in 1..Len(r) : FormatCell(py, r[i]).raised # "none"
    THEN [raised |-> "NameError", cells |-> <<>>]
    ELSE [raised |-> "none",
          cells |-> [i \in 1..Len(r) |-> Encode(py, FormatCell(py, r[i]).s)]]

----------------------------------------------------------------------------
(* choose_table_names *)

\* where the last c of s is, or 0
LastAt(s, c) ==
    IF \E i \in 1..Len(s) : s[i] = c
    THEN CHOOSE i \in 1..Len(s) : s[i] = c /\ \A j \in (i + 1)..Len(s) : s[j] # c
    ELSE 0

\* os.path.basename
basename(path) == SubSeq(path, LastAt(path, "/") + 1, Len(path))

\* os.path.splitext(name)[0]: name up to its last ".", when a character
\* other than "." comes before that point
splitext_root(name) ==
    LET d == LastAt(name, ".")
    IN  IF d > 0 /\ \E i \in 1..(d - 1) : name[i] # "."
        THEN SubSeq(name, 1, d - 1)
        ELSE name

GenericName == <<"c", "s", "v">>

table_base_name(csv_file, based) ==
    IF based THEN splitext_root(basename(csv_file)) ELSE GenericName

\* the inner loop with the suffix n in place of n + 1
RECURSIVE NameProbe_SuffixN(_, _, _)
NameProbe_SuffixN(base, names, n) ==
    LET candidate == IF n > 0 THEN base \o IntDigits(n) ELSE base
    IN  IF ~InList(candidate, names) THEN candidate
        ELSE NameProbe_SuffixN(base, names, n + 1)

\* the inner loop of choose_table_names, entered with n
RECURSIVE NameProbe(_, _, _)
NameProbe(base, names, n) ==
    LET candidate == IF n > 0 THEN base \o IntDigits(n + 1) ELSE base
    IN  IF ~InList(candidate, names) THEN candidate
        ELSE NameProbe(base, names, n + 1)

\* one pass of the outer loop: the name appended for csv_file
NextTableName(csv_file, based, names) ==
    NameProbe(table_base_name(csv_file, based), names, 0)

RECURSIVE NamesFrom(_, _, _, _)
NamesFrom(files, based, names, k) ==
    IF k > Len(files) THEN names
    ELSE NamesFrom(files, based,
                   Append(names, NextTableName(files[k], based, names)), k + 1)

choose_table_names(files, based) == NamesFrom(files, based, <<>>, 1)

----------------------------------------------------------------------------
(* The embedded engine (sqlite3), as create_table and run_query use it *)

CreateRequest(name, columns, ok) ==
    [op |-> "create", table |-> name, columns |-> columns,
     placeholders |-> 0, data |-> <<>>, ok |-> ok]

InsertRequest(name, placeholders, data, ok) ==
    [op |-> "insert", table |-> name, columns |-> <<>>,
     placeholders |-> placeholders, data |-> data, ok |-> ok]

QueryRequest(name, ok) ==
    [op |-> "query", table |-> name, columns |-> <<>>,
     placeholders |-> 0, data |-> <<>>, ok |-> ok]

\* the table exists: a CREATE TABLE for it succeeded
TableExists(log, name) ==
    \E i \in 1..Len(log) :
        log[i].op = "create" /\ log[i].table = name /\ log[i].ok

TableColumns(log, name) ==
    LET i == CHOOSE i \in 1..Len(log) :
                 log[i].op = "create" /\ log[i].table = name /\ log[i].ok
    IN  log[i].columns

\* CREATE TABLE is refused for a table that exists and for an empty
\* column list
CreateAccepted(log, name, columns) ==
    ~TableExists(log, name) /\ Len(columns) > 0

\* INSERT ... VALUES (?,...,?) is refused unless the values bound are as many
\* as the placeholders, and as many as the table's columns
InsertAccepted(log, name, placeholders, data) ==
    /\ TableExists(log, name)
    /\ placeholders = Len(data)
    /\ placeholders = Len(TableColumns(log, name))

\* the rows of a table: the data of the inserts accepted, in order
RECURSIVE TableRows(_, _)
TableRows(log, name) ==
    IF log = <<>> THEN <<>>
    ELSE LET last == log[Len(log)]
             before == TableRows(SubSeq(log, 1, Len(log) - 1), name)
         IN  IF last.op = "insert" /\ last.table = name /\ last.ok
             THEN Append(before, last.data)
             ELSE before

----------------------------------------------------------------------------
(* create_table *)

ROW_PADDING_STRING == <<>>

Min(a, b) == IF a < b THEN a ELSE b
Max(a, b) == IF a > b THEN a ELSE b

\* [col.strip() for col in next(reader)]
StrippedCells(r) == [i \in 1..Len(r) |-> strip(r[i])]

\* the sample of column col (counted from 1): in pad mode a missing cell is
\* the padding string, in strict mode it raises IndexError
ExampleData(pad, rows, col) ==
    IF pad
    THEN [raised |-> "none",
          data |-> [i \in 1..Len(rows) |->
                      IF Len(rows[i]) >= col THEN strip(rows[i][col])
                                             ELSE ROW_PADDING_STRING]]
    ELSE IF \E i \in 1..Len(rows) : Len(rows[i]) < col
         THEN [raised |-> "IndexError", data |-> <<>>]
         ELSE [raised |-> "none",
               data |-> [i \in 1..Len(rows) |-> strip(rows[i][col])]]

\* the type-guessing loop from column col on: [error, types]
RECURSIVE InferFrom(_, _, _, _, _)
InferFrom(py, pad, rows, hdr, col) ==
    IF col > Len(hdr) THEN [error |-> "none", types |-> <<>>]
    ELSE LET sample == ExampleData(pad, rows, col) IN
         IF sample.raised # "none"
         THEN [error |-> "RowLengthMismatch", types |-> <<>>]
         ELSE LET cast_type == guess_type(py, sample.data) IN
              IF cast_type = "ValueError"
              THEN [error |-> "NoMatchingType", types |-> <<>>]
              ELSE LET rest == InferFrom(py, pad, rows, hdr, col + 1) IN
                   IF rest.error # "none" THEN rest
                   ELSE [error |-> "none", types |-> <<cast_type>> \o rest.types]

\* row += padding
Padded(r, hdr) ==
    r \o [i \in 1..Max(0, Len(hdr) - Len(r)) |-> ROW_PADDING_STRING]

\* [guessed_type[col_name](val.strip()) for col_name, val in zip(header, row)]
CastRow(py, types, hdr, r) ==
    [i \in 1..Min(Len(hdr), Len(r)) |-> Cast(py, types[i], strip(r[i]))]

\* the exception the casts of a row raise first, or "none"
CastRaised(casts) ==
    IF \E i \in 1..Len(casts) : casts[i].raised # "none"
    THEN casts[CHOOSE i \in 1..Len(casts) :
                  /\ casts[i].raised # "none"
                  /\ \A j \in 1..(i - 1) : casts[j].raised = "none"].raised
    ELSE "none"

\* the casts of a row and the INSERT submitted for it:
\* [error, submitted, request]
CastAndSubmit(py, types, hdr, name, log, r) ==
    LET casts == CastRow(py, types, hdr, r)
        raised == CastRaised(casts)
        data == [i \in 1..Len(casts) |-> casts[i].val]
        ok == InsertAccepted(log, name, Len(r), data)
    IN  IF raised = "ValueError"
        THEN [error |-> "TypeConversionFailure", submitted |-> FALSE,
              request |-> InsertRequest(name, 0, <<>>, FALSE)]
        ELSE IF raised # "none"
        THEN [error |-> raised, submitted |-> FALSE,
              request |-> InsertRequest(name, 0, <<>>, FALSE)]
        ELSE [error |-> IF ok THEN "none" ELSE "EngineError",
              submitted |-> TRUE,
              request |-> InsertRequest(name, Len(r), data, ok)]

\* one pass of the insert loop with the strict length check left out
InsertOutcome_Unchecked(py, pad, types, hdr, name, log, r) ==
    CastAndSubmit(py, types, hdr, name, log, r)

\* one pass of the insert loop over row r (already padded in pad mode):
\* [error, submitted, request]
InsertOutcome(py, pad, types, hdr, name, log, r) ==
    IF ~pad /\ Len(r) # Len(hdr)
    THEN [error |-> "RowLengthMismatch", submitted |-> FALSE,
          request |-> InsertRequest(name, 0, <<>>, FALSE)]
    ELSE CastAndSubmit(py, types, hdr, name, log, r)

\* the columns of the CREATE TABLE statement
SchemaColumns(hdr, types) ==
    [i \in 1..Len(hdr) |-> [name |-> hdr[i], type |-> types[i]]]

\* next(reader) raises StopIteration on an empty file
ReadHeader ==
    /\ pc = "ReadHeader"
    /\ IF file = <<>>
       THEN /\ pc' = "Failed"
            /\ error' = "StopIteration"
            /\ UNCHANGED <<header_in, header, reader_pos>>
       ELSE /\ header_in' = StrippedCells(file[1])
            /\ header' = rename_duplicates(StrippedCells(file[1]))
            /\ reader_pos' = 1
            /\ pc' = "SampleRows"
            /\ error' = error
    /\ UNCHANGED <<python, guessVars, col_num, formatVars, namesVars, queryVars,
                   pad_rows, file, table_name, detect_type_rows,
                   guessed_type, num_rows, engine>>

\* list(itertools.islice(reader, GUESS_TYPE_FROM_N_ROWS))
SampleRows ==
    /\ pc = "SampleRows"
    /\ LET last == Min(reader_pos + GUESS_TYPE_FROM_N_ROWS, Len(file))
       IN  /\ detect_type_rows' = SubSeq(file, reader_pos + 1, last)
           /\ reader_pos' = last
    /\ pc' = "InferSchema"
    /\ UNCHANGED <<python, guessVars, renameVars, formatVars, namesVars, queryVars,
                   pad_rows, file, table_name, guessed_type, num_rows,
                   error, engine>>

InferSchema ==
    /\ pc = "InferSchema"
    /\ \E inferred \in {InferFrom(python, pad_rows, detect_type_rows, header, 1)} :
           IF inferred.error = "none"
           THEN /\ guessed_type' = inferred.types
                /\ pc' = "EmitSchema"
                /\ error' = error
           ELSE /\ guessed_type' = guessed_type
                /\ pc' = "Failed"
                /\ error' = inferred.error
    /\ UNCHANGED <<python, guessVars, renameVars, formatVars, namesVars, queryVars,
                   pad_rows, file, table_name, reader_pos, detect_type_rows,
                   num_rows, engine>>

\* db_cursor.execute('CREATE TABLE ...')
EmitSchema ==
    /\ pc = "EmitSchema"
    /\ LET columns == SchemaColumns(header, guessed_type)
           ok == CreateAccepted(engine, table_name, columns)
       IN  /\ engine' = Append(engine, CreateRequest(table_name, columns, ok))
           /\ pc' = IF ok THEN "StreamInsert" ELSE "Failed"
           /\ error' = IF ok THEN error ELSE "EngineError"
    /\ num_rows' = 0
    /\ UNCHANGED <<python, guessVars, renameVars, formatVars, namesVars, queryVars,
                   pad_rows, file, table_name, reader_pos, detect_type_rows,
                   guessed_type>>

\* the chain with the sample rows not retained
FromSample_Never == FALSE

\* the next row comes from the retained sample rows
FromSample == num_rows < Len(detect_type_rows)

\* itertools.chain(detect_type_rows, reader) has a next row
ChainHasNext == FromSample \/ reader_pos < Len(file)

\* the next row of itertools.chain(detect_type_rows, reader)
ChainNext ==
    IF FromSample THEN detect_type_rows[num_rows + 1] ELSE file[reader_pos + 1]

\* one pass of the insert loop
InsertRow ==
    /\ pc = "StreamInsert"
    /\ ChainHasNext
    /\ \E r \in {IF pad_rows THEN Padded(ChainNext, header) ELSE ChainNext} :
       \E out \in {InsertOutcome(python, pad_rows, guessed_type, header,
                                 table_name, engine, r)} :
           /\ detect_type_rows' =
                IF FromSample THEN [detect_type_rows EXCEPT ![num_rows + 1] = r]
                              ELSE detect_type_rows
           /\ reader_pos' = IF FromSample THEN reader_pos ELSE reader_pos + 1
           /\ engine' = IF out.submitted THEN Append(engine, out.request)
                                         ELSE engine
           /\ IF out.error = "none"
              THEN /\ num_rows' = num_rows + 1
                   /\ UNCHANGED <<pc, error>>
              ELSE /\ pc' = "Failed"
                   /\ error' = out.error
                   /\ num_rows' = num_rows
    /\ UNCHANGED <<python, guessVars, renameVars, formatVars, namesVars, queryVars,
                   pad_rows, file, table_name, guessed_type>>

\* the chain is exhausted: the loop ends and create_table returns
FinishLoad ==
    /\ pc = "StreamInsert"
    /\ ~ChainHasNext
    /\ pc' = "Done"
    /\ UNCHANGED <<python, guessVars, renameVars, formatVars, namesVars, queryVars,
                   pad_rows, file, table_name, reader_pos, detect_type_rows,
                   guessed_type, num_rows, error, engine>>

----------------------------------------------------------------------------
(* Each specification below runs one part of the program; the variables of
   the other parts are idle. *)

GuessIdle == example_data = <<>> /\ guess_result = "idle"
RenameIdle == header_in = <<>> /\ header = <<>> /\ col_num = 0
FormatIdle == row = <<>> /\ row_formatted = [state |-> "idle", cells |-> <<>>]
NamesIdle == csv_files = <<>> /\ based_on_filename = TRUE /\ table_names = <<>>
LoadIdle ==
    /\ pad_rows = TRUE /\ file = <<>> /\ table_name = <<>> /\ pc = "idle"
    /\ reader_pos = 0 /\ detect_type_rows = <<>> /\ guessed_type = <<>>
    /\ num_rows = 0 /\ error = "none" /\ engine = <<>>
QueryIdle ==
    /\ qpc = "idle" /\ file_num = 0 /\ query = <<>> /\ cursor = <<>>
    /\ output = <<>>

----------------------------------------------------------------------------
(* guess_type on its own *)

\* the trimmed cells a sample is drawn from
SampleCells ==
    { <<"1">>, <<"2">>, <<"1", ".", "5">>, <<"x">>, <<>>, <<"$", "1">>,
      <<"1", ",", "0">>, <<"-", "3">>, <<BadByte>> }

\* under Python 3 the reader hands on decoded text, which holds no bad byte
InitGuess ==
    /\ python \in {2, 3}
    /\ example_data \in SeqsUpTo(SampleCells, MaxSample)
    /\ python = 3 => \A i \in 1..Len(example_data) : ValidUTF8(example_data[i])
    /\ guess_result = "pending"
    /\ RenameIdle /\ FormatIdle /\ NamesIdle /\ LoadIdle /\ QueryIdle

GuessType ==
    /\ guess_result = "pending"
    /\ guess_result' = guess_type(python, example_data)
    /\ UNCHANGED <<python, example_data, renameVars, formatVars, namesVars, loadVars, queryVars>>

NextGuess == GuessType

SpecGuess == InitGuess /\ [][NextGuess]_vars

----------------------------------------------------------------------------
(* rename_duplicates on its own, one column per step *)

HeaderNames == { <<"a">>, <<"a", "2">>, <<"a", "3">>, <<"b">> }

InitRename ==
    /\ python \in {2, 3}
    /\ header_in \in SeqsUpTo(HeaderNames, MaxHeader)
    /\ header = header_in
    /\ col_num = 0
    /\ GuessIdle /\ FormatIdle /\ NamesIdle /\ LoadIdle /\ QueryIdle

RenameColumn ==
    /\ col_num < Len(header)
    /\ header' = RenameAt(header, col_num + 1)
    /\ col_num' = col_num + 1
    /\ UNCHANGED <<python, header_in, guessVars, formatVars, namesVars, loadVars, queryVars>>

NextRename == RenameColumn

SpecRename == InitRename /\ [][NextRename]_vars

----------------------------------------------------------------------------
(* format_row on its own *)

\* the cells of a result row: integers, floats (3.14, 5.0, -2.5, 100.0, 0.0,
\* 0.000001), text and NULL
ResultCells ==
    { IntVal(42), IntVal(0), IntVal(-7),
      FloatVal(3140000), FloatVal(5000000), FloatVal(-2500000),
      FloatVal(100000000), FloatVal(0), FloatVal(1),
      UnicodeVal(<<"x">>), None }

InitFormat ==
    /\ python \in {2, 3}
    /\ row \in SeqsUpTo(ResultCells, MaxCells)
    /\ row_formatted = [state |-> "pending", cells |-> <<>>]
    /\ GuessIdle /\ RenameIdle /\ NamesIdle /\ LoadIdle /\ QueryIdle

FormatRow ==
    /\ row_formatted.state = "pending"
    /\ row_formatted' =
         LET out == format_row(python, row)
         IN  [state |-> IF out.raised = "none" THEN "done" ELSE out.raised,
              cells |-> out.cells]
    /\ UNCHANGED <<python, row, guessVars, renameVars, namesVars, loadVars, queryVars>>

NextFormat == FormatRow

SpecFormat == InitFormat /\ [][NextFormat]_vars

----------------------------------------------------------------------------
(* choose_table_names on its own, one file per step *)

\* /a/f.c  /b/f.c  g.c  f2.c  /a.b/f
Paths ==
    { <<"/", "a", "/", "f", ".", "c">>, <<"/", "b", "/", "f", ".", "c">>,
      <<"g", ".", "c">>, <<"f", "2", ".", "c">>,
      <<"/", "a", ".", "b", "/", "f">> }

InitNames ==
    /\ python \in {2, 3}
    /\ csv_files \in SeqsUpTo(Paths, MaxFiles)
    /\ based_on_filename \in BOOLEAN
    /\ table_names = <<>>
    /\ GuessIdle /\ RenameIdle /\ FormatIdle /\ LoadIdle /\ QueryIdle

ChooseName ==
    /\ Len(table_names) < Len(csv_files)
    /\ table_names' =
         Append(table_names,
                NextTableName(csv_files[Len(table_names) + 1],
                              based_on_filename, table_names))
    /\ UNCHANGED <<python, csv_files, based_on_filename,
                   guessVars, renameVars, formatVars, loadVars, queryVars>>

NextNames == ChooseName

SpecNames == InitNames /\ [][NextNames]_vars

----------------------------------------------------------------------------
(* create_table on its own: one file loaded into the table csv *)

\* the header cells and data cells of a loaded file (untrimmed)
LoadHeaderCells == { <<" ", "a">> }
LoadCells == { <<"1", " ">>, <<"x">> }

\* the data rows of a file whose header has h columns: every row of up to h
\* cells, and one row that is one cell longer than the header
RowsFor(h) == SeqsUpTo(LoadCells, h) \cup { [i \in 1..(h + 1) |-> <<"1", " ">>] }

\* the file is empty, or a header followed by up to MaxRows data rows
InitLoad ==
    /\ \/ file = <<>>
       \/ \E h \in 0..MaxCols, n \in 0..MaxRows :
            \E hdr \in [1..h -> LoadHeaderCells], rows \in [1..n -> RowsFor(h)] :
                file = <<hdr>> \o rows
    /\ python \in {2, 3}
    /\ pad_rows \in BOOLEAN
    /\ table_name = GenericName
    /\ pc = "ReadHeader"
    /\ reader_pos = 0 /\ detect_type_rows = <<>> /\ guessed_type = <<>>
    /\ num_rows = 0 /\ error = "none" /\ engine = <<>>
    /\ GuessIdle /\ RenameIdle /\ FormatIdle /\ NamesIdle /\ QueryIdle

Next ==
    \/ ReadHeader
    \/ SampleRows
    \/ InferSchema
    \/ EmitSchema
    \/ InsertRow
    \/ FinishLoad

Spec == InitLoad /\ [][Next]_vars

----------------------------------------------------------------------------
(* run_query: a batch session over csv_files *)

\* csv.writer's text for one cell of format_row: a Python 3 bytes object
\* is written as its repr, b'...'
WrittenCell(py, cell) ==
    IF py = 3 /\ cell.t = "bytes" THEN <<"b", "'">> \o cell.s \o <<"'">>
    ELSE cell.s

WrittenRow(py, cells) == [i \in 1..Len(cells) |-> WrittenCell(py, cells[i])]

\* the column names of a table, as the cursor describes them
ColumnNames(log, name) ==
    [i \in 1..Len(TableColumns(log, name)) |-> TableColumns(log, name)[i].name]

\* a data row that converts under INTEGER within the window and one that
\* does not
One == <<"1">>
Ex == <<"x">>

\* the content of the files the session may be given:
\*   /a/f.c   a,b / 1,1.5 / 2,3       loads into INTEGER and FLOAT columns
\*   /b/f.c   a,a / 1                 a short row, padded
\*   g.c      a / 1 ... 1 / x         x lies beyond the sampling window
\*   f2.c     a / 1,1                 a row longer than the header
\*   /a.b/f   a / x                   a text column
FileSystem(path) ==
    CASE path = <<"/", "a", "/", "f", ".", "c">> ->
            << <<<<"a">>, <<"b">>>>, <<One, <<"1", ".", "5">>>>,
               <<<<"2">>, <<"3">>>> >>
      [] path = <<"/", "b", "/", "f", ".", "c">> ->
            << <<<<"a">>, <<"a">>>>, <<One>> >>
      [] path = <<"g", ".", "c">> ->
            << <<<<"a">>>> >> \o [i \in 1..GUESS_TYPE_FROM_N_ROWS |-> <<One>>]
               \o << <<Ex>> >>
      [] path = <<"f", "2", ".", "c">> ->
            << <<<<"a">>>>, <<One, One>> >>
      [] path = <<"/", "a", ".", "b", "/", "f">> ->
            << <<<<"a">>>>, <<Ex>> >>

\* the tables the caller's query may select from
QueryTables == { <<"f">>, <<"f", "2">> }

InitQuery ==
    /\ python \in {2, 3}
    /\ csv_files \in SeqsUpTo(Paths, MaxFiles)
    /\ based_on_filename = TRUE
    /\ table_names = <<>>
    /\ query \in QueryTables
    /\ qpc = "Start" /\ file_num = 0 /\ cursor = <<>> /\ output = <<>>
    /\ GuessIdle /\ RenameIdle /\ FormatIdle /\ LoadIdle

\* table_names = choose_table_names(csv_files, based_on_filename=True)
ChooseTableNames ==
    /\ qpc = "Start"
    /\ table_names' = choose_table_names(csv_files, TRUE)
    /\ qpc' = "Loading"
    /\ UNCHANGED <<python, guessVars, renameVars, formatVars, loadVars,
                   csv_files, based_on_filename, file_num, query, cursor,
                   output>>

\* create_table(csv_file, db_cur, table_name) is entered for the next file
CallCreateTable ==
    /\ qpc = "Loading"
    /\ pc \in {"idle", "Done"}
    /\ file_num < Len(csv_files)
    /\ file_num' = file_num + 1
    /\ file' = FileSystem(csv_files[file_num + 1])
    /\ table_name' = table_names[file_num + 1]
    /\ pad_rows' = TRUE
    /\ pc' = "ReadHeader"
    /\ header_in' = <<>> /\ header' = <<>>
    /\ reader_pos' = 0 /\ detect_type_rows' = <<>> /\ guessed_type' = <<>>
    /\ num_rows' = 0
    /\ UNCHANGED <<python, guessVars, col_num, formatVars, namesVars,
                   error, engine, qpc, query, cursor, output>>

\* the exception of create_table swallowed: the loop goes on
LoadRaises_Swallowed ==
    /\ qpc = "Loading"
    /\ pc = "Failed"
    /\ pc' = "idle"
    /\ UNCHANGED <<python, guessVars, renameVars, formatVars, namesVars,
                   queryVars, pad_rows, file, table_name, reader_pos,
                   detect_type_rows, guessed_type, num_rows, error, engine>>

\* create_table raised: the exception leaves run_query
LoadRaises ==
    /\ qpc = "Loading"
    /\ pc = "Failed"
    /\ qpc' = "Aborted"
    /\ UNCHANGED <<python, guessVars, renameVars, formatVars, namesVars,
                   loadVars, file_num, query, cursor, output>>

\* db_cur.execute(query), and the header row written
ExecuteQuery ==
    /\ qpc = "Loading"
    /\ pc \in {"idle", "Done"}
    /\ file_num = Len(csv_files)
    /\ \E ok \in {TableExists(engine, query)} :
        /\ engine' = Append(engine, QueryRequest(query, ok))
        /\ qpc' = IF ok THEN "Writing" ELSE "Aborted"
        /\ error' = IF ok THEN error ELSE "EngineError"
        /\ cursor' = IF ok THEN TableRows(engine, query) ELSE <<>>
        /\ output' = IF ok THEN <<ColumnNames(engine, query)>> ELSE <<>>
    /\ UNCHANGED <<python, guessVars, renameVars, formatVars, namesVars,
                   pad_rows, file, table_name, pc, reader_pos,
                   detect_type_rows, guessed_type, num_rows, file_num, query>>

\* writer.writerow(format_row(row)) for the next row of the cursor
WriteRow ==
    /\ qpc = "Writing"
    /\ cursor # <<>>
    /\ \E out \in {format_row(python, Head(cursor))} :
        IF out.raised = "none"
        THEN /\ output' = Append(output, WrittenRow(python, out.cells))
             /\ cursor' = Tail(cursor)
             /\ UNCHANGED <<qpc, error>>
        ELSE /\ qpc' = "Aborted"
             /\ error' = out.raised
             /\ UNCHANGED <<output, cursor>>
    /\ UNCHANGED <<python, guessVars, renameVars, formatVars, namesVars,
                   pad_rows, file, table_name, pc, reader_pos,
                   detect_type_rows, guessed_type, num_rows, engine,
                   file_num, query>>

\* the cursor is exhausted: run_query returns
FinishQuery ==
    /\ qpc = "Writing"
    /\ cursor = <<>>
    /\ qpc' = "Finished"
    /\ UNCHANGED <<python, guessVars, renameVars, formatVars, namesVars,
                   loadVars, file_num, query, cursor, output>>

NextQuery ==
    \/ ChooseTableNames
    \/ CallCreateTable
    \/ ReadHeader
    \/ SampleRows
    \/ InferSchema
    \/ EmitSchema
    \/ InsertRow
    \/ FinishLoad
    \/ LoadRaises
    \/ ExecuteQuery
    \/ WriteRow
    \/ FinishQuery

SpecQuery == InitQuery /\ [][NextQuery]_vars

----------------------------------------------------------------------------
(* Properties of guess_type (under SpecGuess) *)

IsNumeric(type, data) ==
    \A i \in 1..Len(data) : Cast(2, type, data[i]).raised = "none"

\* the type the priority order Integer, Float, Text, Blob gives a sample when
\* Text accepts every value
PriorityType(data) ==
    IF IsNumeric("INTEGER", data) THEN "INTEGER"
    ELSE IF IsNumeric("FLOAT", data) THEN "FLOAT"
    ELSE "TEXT"

GuessDone == guess_result \notin {"pending", "idle"}

ValidSample == \A i \in 1..Len(example_data) : ValidUTF8(example_data[i])

\* C1: for every sample (of valid text), guess_type returns the first of
\* Integer, Float, Text, Blob whose parse function accepts every value: an
\* all-integer sample gives Integer, a numeric sample with a fraction gives
\* Float, and a sample with a non-numeric value gives Text, never Blob.
C1_GuessByPriority ==
    (GuessDone /\ ValidSample) => guess_result = PriorityType(example_data)

----------------------------------------------------------------------------
(* Properties of rename_duplicates (under SpecRename) *)

Distinct(list) ==
    \A i, j \in 1..Len(list) : i # j => list[i] # list[j]

\* name is what the collision policy gives base against the names in prior:
\* base itself when it is not taken, else base with the smallest suffix
\* k >= 2 that is not taken
SmallestSuffix(name, base, prior) ==
    IF ~InList(base, prior) THEN name = base
    ELSE \E k \in 2..(Len(prior) + 2) :
            /\ name = base \o IntDigits(k)
            /\ ~InList(name, prior)
            /\ \A m \in 2..(k - 1) : InList(base \o IntDigits(m), prior)

\* C2: rename_duplicates returns a list of the same length with pairwise
\* distinct names; going left to right, position i keeps its input name when
\* no finalized name at an earlier position equals it, and else becomes the
\* input name followed by the smallest k >= 2 whose suffixed name is not
\* among them. (Stated of every pass of the loop; the positions not yet
\* reached still hold their input names.)
C2_RenameDuplicates ==
    /\ Len(header) = Len(header_in)
    /\ col_num <= Len(header)
    /\ Distinct(SubSeq(header, 1, col_num))
    /\ \A i \in 1..col_num :
          SmallestSuffix(header[i], header_in[i], SubSeq(header, 1, i - 1))
    /\ \A i \in (col_num + 1)..Len(header) : header[i] = header_in[i]
    /\ col_num = Len(header) => header = rename_duplicates(header_in)

\* a, a2, a has become a, a2, a3
C2_Witness ==
    /\ col_num = 3
    /\ header_in = << <<"a">>, <<"a", "2">>, <<"a">> >>
    /\ header = << <<"a">>, <<"a", "2">>, <<"a", "3">> >>

----------------------------------------------------------------------------
(* Properties of format_row (under SpecFormat) *)

\* s is a fixed-point rendering with its trailing zeros and a trailing
\* point stripped
Stripped(s) ==
    /\ s # <<>>
    /\ s[Len(s)] # "."
    /\ DotAt(s) > 0 => s[Len(s)] # "0"
    /\ \A i \in 1..Len(s) : s[i] \in Digit \cup {".", "-"}

\* C3: format_row renders every float cell as fixed-point decimal with the
\* trailing zeros and a trailing point stripped (3.14 as "3.14", 5.0 as "5")
\* and every integer cell as plain decimal digits (42 as "42").
C3_NumbersCanonical ==
    row_formatted.state = "done" =>
        \A i \in 1..Len(row) :
            /\ row[i].t = "float" =>
                  /\ Stripped(row_formatted.cells[i].s)
                  /\ float(row_formatted.cells[i].s).val = row[i]
            /\ row[i].t = "int" =>
                  /\ IsDigits(Unsigned(row_formatted.cells[i].s))
                  /\ int(row_formatted.cells[i].s).val = row[i]

----------------------------------------------------------------------------
(* Properties of choose_table_names (under SpecNames) *)

\* the file name without its extension, of each path of Paths
FileStem(path) ==
    CASE path = <<"/", "a", "/", "f", ".", "c">> -> <<"f">>
      [] path = <<"/", "b", "/", "f", ".", "c">> -> <<"f">>
      [] path = <<"g", ".", "c">> -> <<"g">>
      [] path = <<"f", "2", ".", "c">> -> <<"f", "2">>
      [] path = <<"/", "a", ".", "b", "/", "f">> -> <<"f">>

BaseName(path) == IF based_on_filename THEN FileStem(path) ELSE <<"c", "s", "v">>

\* C4: choose_table_names gives one name per file, in file order, pairwise
\* distinct: the file's base name (its name without extension, or csv in
\* generic mode) when that is not yet assigned, else the base name followed
\* by the smallest k >= 2 whose suffixed name is unused so far. (Stated of
\* every pass of the loop.)
C4_TableNames ==
    /\ Len(table_names) <= Len(csv_files)
    /\ Distinct(table_names)
    /\ \A i \in 1..Len(table_names) :
          SmallestSuffix(table_names[i], BaseName(csv_files[i]),
                         SubSeq(table_names, 1, i - 1))
    /\ Len(table_names) = Len(csv_files) =>
          table_names = choose_table_names(csv_files, based_on_filename)

\* /a/f.c, f2.c, /b/f.c are named f, f2, f3
C4_Witness ==
    /\ based_on_filename
    /\ csv_files = << <<"/", "a", "/", "f", ".", "c">>, <<"f", "2", ".", "c">>,
                      <<"/", "b", "/", "f", ".", "c">> >>
    /\ table_names = << <<"f">>, <<"f", "2">>, <<"f", "3">> >>

----------------------------------------------------------------------------
(* Properties of create_table (under Spec) *)

\* the data rows of the file, in file order
DataRows == IF file = <<>> THEN <<>> ELSE Tail(file)

\* the number of cells of the header row
HeaderLen == IF file = <<>> THEN 0 ELSE Len(file[1])

\* data row i is shorter or longer than the header
Mismatched(i) == Len(DataRows[i]) # HeaderLen

\* the first data row that is shorter or longer than the header, or 0
FirstMismatch ==
    IF \E i \in 1..Len(DataRows) : Mismatched(i)
    THEN CHOOSE i \in 1..Len(DataRows) :
            Mismatched(i) /\ \A j \in 1..(i - 1) : ~Mismatched(j)
    ELSE 0

\* the data rows inside the sampling window
WindowRows == 1..Min(GUESS_TYPE_FROM_N_ROWS, Len(DataRows))

IsInsert(q) == q.op = "insert"
IsCreate(q) == q.op = "create"
IsQuery(q) == q.op = "query"

\* the INSERT requests submitted to the engine, accepted or refused
Inserts == SelectSeq(engine, IsInsert)

Creates == SelectSeq(engine, IsCreate)

Ended == pc \in {"Done", "Failed"}

\* C5: in strict mode, if any data row (inside or beyond the window, shorter
\* or longer than the header) differs in length from the header, the load
\* ends in failure with RowLengthMismatch, and that row is never submitted
\* as an insert. (Stated for files whose header has at least one column.)
C5_StrictMismatchIsRowLengthMismatch ==
    (~pad_rows /\ HeaderLen >= 1 /\ FirstMismatch > 0) =>
        /\ Ended => (pc = "Failed" /\ error = "RowLengthMismatch")
        /\ \A k \in 1..Len(Inserts) : ~Mismatched(k)

\* C5, amended: in strict mode a data row whose length differs from the
\* header's is never submitted as an insert (the k-th insert is for the k-th
\* data row, and has the header's width) and the load never completes; it
\* fails with RowLengthMismatch unless it has failed before reaching that
\* row: with a TypeConversionFailure on an earlier row, or with an error of
\* inference or of the engine before any row is inserted. RowLengthMismatch
\* is raised for no other reason.
C5_StrictMismatchEndsLoad ==
    (~pad_rows /\ file # <<>>) =>
        /\ \A k \in 1..Len(Inserts) :
              ~Mismatched(k) /\ Inserts[k].placeholders = HeaderLen
        /\ pc = "Done" => FirstMismatch = 0
        /\ (pc = "Failed" /\ error = "RowLengthMismatch") => FirstMismatch > 0
        /\ (pc = "Failed" /\ FirstMismatch > 0 /\ error # "RowLengthMismatch") =>
              \/ error = "TypeConversionFailure" /\ num_rows + 1 < FirstMismatch
              \/ error \in {"EngineError", "NoMatchingType"} /\ Inserts = <<>>

\* a mismatched row beyond the window ended a strict load that had
\* inserted rows
C5_Witness ==
    /\ ~pad_rows
    /\ pc = "Failed" /\ error = "RowLengthMismatch"
    /\ num_rows >= GUESS_TYPE_FROM_N_ROWS
    /\ Len(Inserts) >= 1
    /\ FirstMismatch = num_rows + 1

\* C6: in pad mode every row handed to the engine as an insert has exactly
\* as many values and as many placeholders as the table has columns,
\* whatever the raw length of the row.
C6_PadInsertWidth ==
    pad_rows =>
        \A k \in 1..Len(Inserts) :
            /\ Inserts[k].placeholders = Len(header)
            /\ Len(Inserts[k].data) = Len(header)

\* type inference has succeeded
Inferred == pc \in {"EmitSchema", "StreamInsert", "Done"} \/ (pc = "Failed" /\ engine # <<>>)

\* the row as the insert loop types it
AsInserted(r) == IF pad_rows THEN Padded(r, header) ELSE r

\* C7: once type inference has succeeded, every row of the sampling window
\* converts under the inferred column types when it is inserted (padded
\* cells included), so a TypeConversionFailure is raised only for a row
\* beyond the sampling window.
C7_WindowRowsConvert ==
    /\ Inferred =>
          \A k \in WindowRows :
              \A i \in 1..Min(Len(header), Len(AsInserted(DataRows[k]))) :
                  Cast(python, guessed_type[i],
                       strip(AsInserted(DataRows[k])[i])).raised = "none"
    /\ error = "TypeConversionFailure" =>
          /\ pc = "Failed"
          /\ num_rows >= GUESS_TYPE_FROM_N_ROWS

\* a row beyond the window failed to convert after the window's rows were
\* inserted
C7_Witness ==
    /\ error = "TypeConversionFailure"
    /\ Len(Inserts) = GUESS_TYPE_FROM_N_ROWS
    /\ num_rows = GUESS_TYPE_FROM_N_ROWS

\* data row r as the table holds it
TypedRow(r) ==
    [i \in 1..Len(header) |->
        Cast(python, guessed_type[i], strip(AsInserted(r)[i])).val]

IsPrefix(s, u) == Len(s) <= Len(u) /\ s = SubSeq(u, 1, Len(s))

C9_State ==
    /\ Len(Creates) <= 1
    /\ \A i \in 1..Len(engine) :
          IsInsert(engine[i]) => (i > 1 /\ IsCreate(engine[1]) /\ engine[1].ok)
    /\ Len(TableRows(engine, table_name)) <= Len(DataRows)
    /\ \A k \in 1..Len(TableRows(engine, table_name)) :
          TableRows(engine, table_name)[k] = TypedRow(DataRows[k])
    /\ Len(Inserts) <= Len(TableRows(engine, table_name)) + 1
    /\ pc = "Done" => Len(TableRows(engine, table_name)) = Len(DataRows)

C9_Step ==
    /\ IsPrefix(TableRows(engine, table_name), TableRows(engine', table_name))
    /\ pc' = "Failed" =>
          TableRows(engine', table_name) = TableRows(engine, table_name)

\* C9: in every state of a load the engine has received at most one
\* schema-definition request, no insert before it, and the rows inserted so
\* far are, typed, a prefix of the file's data rows in file order (sample
\* rows first), each once; at Done the prefix is the whole file; no step
\* removes a row, and the step that fails the load leaves the rows inserted
\* before it in the table.
C9_LoadLog == [](C9_State) /\ [][C9_Step]_vars

\* a load failed with two rows already in the table
C9_Witness ==
    /\ pc = "Failed"
    /\ Len(TableRows(engine, table_name)) >= 2

\* C10: in strict mode, if any row inside the sampling window is shorter or
\* longer than the header, the load fails with RowLengthMismatch during
\* InferSchema: before the schema-definition request and before any insert.
\* (Stated for files whose header has at least one column.)
C10_StrictWindowMismatchFailsInInfer ==
    (/\ ~pad_rows /\ HeaderLen >= 1
     /\ \E i \in WindowRows : Mismatched(i)
     /\ pc \notin {"ReadHeader", "SampleRows", "InferSchema"}) =>
        (pc = "Failed" /\ error = "RowLengthMismatch" /\ engine = <<>>)

----------------------------------------------------------------------------
(* Properties of run_query (under SpecQuery) *)

\* how many of the first i requests are CREATE TABLE requests
CreatesBefore(i) == Len(SelectSeq(SubSeq(engine, 1, i), IsCreate))

\* the load of file j has completed: its table was created and holds every
\* data row of the file
LoadCompleted(j) ==
    /\ \E i \in 1..Len(engine) :
          IsCreate(engine[i]) /\ engine[i].table = table_names[j] /\ engine[i].ok
    /\ Len(TableRows(engine, table_names[j])) = Len(FileSystem(csv_files[j])) - 1

C8_State ==
    /\ Len(Creates) <= file_num
    /\ \A k \in 1..Len(Creates) : Creates[k].table = table_names[k]
    /\ \A i \in 1..Len(engine) :
          IsInsert(engine[i]) =>
              /\ CreatesBefore(i) >= 1
              /\ engine[i].table = table_names[CreatesBefore(i)]
    /\ \A j \in 1..(file_num - 1) : LoadCompleted(j)
    /\ \A i \in 1..Len(engine) :
          IsQuery(engine[i]) =>
              /\ i = Len(engine)
              /\ file_num = Len(csv_files)
              /\ \A j \in 1..Len(csv_files) : LoadCompleted(j)
              /\ \A m \in 1..(i - 1) : engine[m].ok
    /\ pc = "Failed" => \A i \in 1..Len(engine) : ~IsQuery(engine[i])

C8_Step ==
    pc = "Failed" => (pc' = "Failed" /\ engine' = engine /\ file_num' = file_num)

\* C8: the files are loaded one after another in list order, each into the
\* table name assigned to it; the query is submitted only after every
\* file's load has completed; once a load has failed, the query is never
\* submitted and no later file is loaded.
C8_LoadsThenQuery == [](C8_State) /\ [][C8_Step]_vars

\* the second of three files failed to load: the session is over with the
\* third file untouched and no query submitted
C8_Witness ==
    /\ qpc = "Aborted" /\ pc = "Failed"
    /\ file_num = 2 /\ Len(csv_files) = 3
    /\ LoadCompleted(1)

====
